---- MODULE Spec2Model ----
(***************************************************************************)
(* Cost Manager data-access layer (src/src/services/idb.js): the module    *)
(* that opens the IndexedDB database, inserts cost records and computes    *)
(* the monthly, per-category and yearly reports with currency conversion.  *)
(*                                                                         *)
(* The IndexedDB engine, the clock, the rate endpoint and the page life    *)
(* cycle are the environment; every exported function and every callback   *)
(* the module registers is one action.                                     *)
(***************************************************************************)
EXTENDS Integers, Sequences, FiniteSets, TLC

(***************************************************************************)
(* Bounds of the model.                                                    *)
(***************************************************************************)
\* records one database may hold
MaxRecords == 2
\* promises that may be outstanding at the same time
MaxInFlight == 2

Slots == 1..MaxInFlight
\* largest numerator of the amounts the converter is applied to
MaxNumerator == 3

(***************************************************************************)
(* JavaScript numbers.  A number is a pair <<n, d>>: the exact rational    *)
(* n/d for d > 0 (in lowest terms), and for d = 0 the values NaN (<<0,0>>),*)
(* Infinity (<<1,0>>) and -Infinity (<<-1,0>>).                            *)
(***************************************************************************)
NaN == <<0, 0>>
Zero == <<0, 1>>

Abs(x) == IF x < 0 THEN -x ELSE x
Sign(x) == IF x < 0 THEN -1 ELSE IF x = 0 THEN 0 ELSE 1

RECURSIVE GCD(_, _)
GCD(a, b) == IF b = 0 THEN a ELSE GCD(b, a % b)

Norm(n, d) ==
  IF d = 0 THEN <<Sign(n), 0>>
  ELSE LET g == GCD(Abs(n), Abs(d))
           s == IF d < 0 THEN -1 ELSE 1
       IN <<(s * n) \div g, (s * d) \div g>>

\* a + b
NumAdd(a, b) ==
  IF a[2] = 0 /\ b[2] = 0
    THEN (IF a[1] = b[1] THEN a ELSE NaN)
    ELSE IF a[2] = 0 THEN a
    ELSE IF b[2] = 0 THEN b
    ELSE Norm(a[1] * b[2] + b[1] * a[2], a[2] * b[2])

\* a / b  (a zero divisor is +0)
NumDiv(a, b) ==
  LET n == a[1] * b[2]
      d == a[2] * b[1]
  IN IF d = 0 THEN <<Sign(n) * (IF b[1] < 0 THEN -1 ELSE 1), 0>>
     ELSE Norm(n, d)

\* a * b
NumMul(a, b) == Norm(a[1] * b[1], a[2] * b[2])

\* ToBoolean of a number: false for 0 and NaN
NumTruthy(a) == a[1] # 0

(***************************************************************************)
(* Strings that are used as property keys are sequences of characters, so  *)
(* that the key order of an ordinary object can be computed.               *)
(***************************************************************************)
Digits == <<"0", "1", "2", "3", "4", "5", "6", "7", "8", "9">>

IsDigit(ch) == \E i \in 1..10 : Digits[i] = ch
DigitValue(ch) == (CHOOSE i \in 1..10 : Digits[i] = ch) - 1

RECURSIVE DecimalValue(_)
DecimalValue(str) ==
  IF str = <<>> THEN 0
  ELSE 10 * DecimalValue(SubSeq(str, 1, Len(str) - 1)) + DigitValue(str[Len(str)])

\* a canonical numeric string of an array index (at most nine digits here,
\* all of which are below 2^32 - 1)
IsArrayIndex(str) ==
  /\ Len(str) \in 1..9
  /\ \A i \in 1..Len(str) : IsDigit(str[i])
  /\ (Len(str) > 1 => str[1] # "0")

S_Food == <<"F", "o", "o", "d">>
S_1 == <<"1">>
S_2 == <<"2">>
S_toString == <<"t", "o", "S", "t", "r", "i", "n", "g">>
S_constructor == <<"c", "o", "n", "s", "t", "r", "u", "c", "t", "o", "r">>
S_valueOf == <<"v", "a", "l", "u", "e", "O", "f">>
S_hasOwnProperty ==
  <<"h", "a", "s", "O", "w", "n", "P", "r", "o", "p", "e", "r", "t", "y">>
S_proto == <<"_", "_", "p", "r", "o", "t", "o", "_", "_">>

(***************************************************************************)
(* Rate Provider and Currency Converter (idb.js, lines 338-377).           *)
(***************************************************************************)
CURRENCIES == {"USD", "ILS", "GBP", "EURO"}

\* A parsed JSON value: an object (a table from keys to numbers) or null.
JsonObject(t) == [kind |-> "object", table |-> t]
JsonNull == [kind |-> "null", table |-> <<>>]

FallbackRates ==
  JsonObject([USD |-> <<1, 1>>, GBP |-> <<3, 5>>, EURO |-> <<7, 10>>,
              ILS |-> <<17, 5>>])

\* what the endpoint may answer: the network result, the status and the body
FetchFailed == [net |-> "error", status |-> 0, parses |-> FALSE, json |-> JsonNull]
Response(status, parses, json) ==
  [net |-> "ok", status |-> status, parses |-> parses, json |-> json]

\* a settled promise
Fulfilled(value) == [state |-> "fulfilled", value |-> value]
Rejected(value) == [state |-> "rejected", value |-> value]

\* fetchExchangeRates, given what the endpoint answers to this fetch: the
\* try block awaits fetch(url), throws on a status other than 200 and
\* awaits response.json(); the catch returns the fallback table
FetchExchangeRatesIgnoresStatus(outcome) ==
  IF outcome.net # "ok" THEN Fulfilled(FallbackRates)
  ELSE IF ~outcome.parses THEN Fulfilled(FallbackRates)
  ELSE Fulfilled(outcome.json)

FetchExchangeRatesNoCatch(outcome) ==
  IF outcome.net # "ok" THEN Rejected(JsonNull)
  ELSE IF outcome.status # 200 THEN Rejected(JsonNull)
  ELSE IF ~outcome.parses THEN Rejected(JsonNull)
  ELSE Fulfilled(outcome.json)

fetchExchangeRates(outcome) ==
  IF outcome.net # "ok" THEN Fulfilled(FallbackRates)
  ELSE IF outcome.status # 200 THEN Fulfilled(FallbackRates)
  ELSE IF ~outcome.parses THEN Fulfilled(FallbackRates)
  ELSE Fulfilled(outcome.json)

\* rates[code] used as a number: a missing key is undefined, hence NaN
RateOf(rates, code) ==
  IF code \in DOMAIN rates.table THEN rates.table[code] ELSE NaN

\* rates[code] throws a TypeError when rates is null
ConvertThrows(fromCurrency, toCurrency, rates) ==
  fromCurrency # toCurrency /\ rates.kind = "null"

ConvertCurrencyAlwaysPivots(amount, fromCurrency, toCurrency, rates) ==
  LET amountInUSD == NumDiv(amount, RateOf(rates, fromCurrency))
  IN NumMul(amountInUSD, RateOf(rates, toCurrency))

ConvertCurrencyInverted(amount, fromCurrency, toCurrency, rates) ==
  IF fromCurrency = toCurrency THEN amount
  ELSE LET amountInUSD == NumMul(amount, RateOf(rates, fromCurrency))
       IN NumDiv(amountInUSD, RateOf(rates, toCurrency))

convertCurrency(amount, fromCurrency, toCurrency, rates) ==
  IF fromCurrency = toCurrency THEN amount
  ELSE LET amountInUSD == NumDiv(amount, RateOf(rates, fromCurrency))
       IN NumMul(amountInUSD, RateOf(rates, toCurrency))

\* some record of costs makes the conversion throw
AnyConvertThrows(costs, currency, rates) ==
  \E i \in 1..Len(costs) : ConvertThrows(costs[i].currency, currency, rates)

(***************************************************************************)
(* getReport: the continuation after the rates arrived (lines 148-173).    *)
(***************************************************************************)
\* the element costs.map builds for one record
DisplayCost(cost) ==
  [sum |-> cost.sum, currency |-> cost.currency,
   category |-> cost.category, description |-> cost.description,
   Date |-> [day |-> cost.day]]

\* costs.map(...) inside the handler, where currency and rates are in scope
ConvertedCostsInTarget(costs, currency, rates) ==
  [i \in 1..Len(costs) |->
     [DisplayCost(costs[i]) EXCEPT
        !.sum = convertCurrency(costs[i].sum, costs[i].currency, currency, rates),
        !.currency = currency]]

ConvertedCosts(costs, currency, rates) ==
  [i \in 1..Len(costs) |-> DisplayCost(costs[i])]

\* convertedCosts.reduce((acc, cost) => acc + convertCurrency(...), 0)
RECURSIVE ReduceTotal(_, _, _)
ReduceTotal(items, currency, rates) ==
  IF items = <<>> THEN Zero
  ELSE LET n == Len(items)
       IN NumAdd(ReduceTotal(SubSeq(items, 1, n - 1), currency, rates),
                 convertCurrency(items[n].sum, items[n].currency, currency,
                                 rates))

ReportValue(year, month, currency, costs, rates) ==
  LET convertedCosts == ConvertedCosts(costs, currency, rates)
  IN [year |-> year, month |-> month, costs |-> convertedCosts,
      total |-> [currency |-> currency,
                 total |-> ReduceTotal(convertedCosts, currency, rates)]]

(***************************************************************************)
(* getCostsByCategory: categoryTotals is an ordinary object created by {}, *)
(* so it inherits from Object.prototype (lines 216-240).                   *)
(***************************************************************************)
\* JavaScript values that a property of categoryTotals may hold
Undefined == [t |-> "undefined", v |-> NaN, base |-> "", tail |-> <<>>]
NumberValue(x) == [t |-> "number", v |-> x, base |-> "", tail |-> <<>>]
FunctionValue == [t |-> "function", v |-> NaN, base |-> "", tail |-> <<>>]
ObjectValue == [t |-> "object", v |-> NaN, base |-> "", tail |-> <<>>]
\* the text of base followed by the texts of the numbers of tail
StringValue(base, tail) == [t |-> "string", v |-> NaN, base |-> base, tail |-> tail]

ObjectPrototypeMethods ==
  {S_toString, S_constructor, S_valueOf, S_hasOwnProperty}

EmptyObject == [keys |-> <<>>, val |-> <<>>]

HasOwn(obj, key) == \E i \in 1..Len(obj.keys) : obj.keys[i] = key

\* obj[key]
ObjGet(obj, key) ==
  IF HasOwn(obj, key) THEN obj.val[CHOOSE i \in 1..Len(obj.keys) : obj.keys[i] = key]
  ELSE IF key = S_proto THEN ObjectValue
  ELSE IF key \in ObjectPrototypeMethods THEN FunctionValue
  ELSE Undefined

\* obj[key] = value, for a value that is a number or a string
ObjSet(obj, key, value) ==
  IF HasOwn(obj, key)
    THEN LET i == CHOOSE j \in 1..Len(obj.keys) : obj.keys[j] = key
         IN [obj EXCEPT !.val[i] = value]
  ELSE IF key = S_proto THEN obj
  ELSE [keys |-> Append(obj.keys, key), val |-> Append(obj.val, value)]

ToBoolean(value) ==
  CASE value.t = "undefined" -> FALSE
    [] value.t = "number" -> NumTruthy(value.v)
    [] OTHER -> TRUE

\* value + amount, amount a number
JsPlus(value, amount) ==
  IF value.t = "number" THEN NumberValue(NumAdd(value.v, amount))
  ELSE IF value.t = "string" THEN StringValue(value.base, Append(value.tail, amount))
  ELSE StringValue(value.t, <<amount>>)

\* the body of costs.forEach
CategoryStep(categoryTotals, cost, currency, rates) ==
  LET convertedAmount ==
        convertCurrency(cost.sum, cost.currency, currency, rates)
      current == ObjGet(categoryTotals, cost.category)
  IN IF ToBoolean(current)
       THEN ObjSet(categoryTotals, cost.category, JsPlus(current, convertedAmount))
       ELSE ObjSet(categoryTotals, cost.category, NumberValue(convertedAmount))

RECURSIVE CategoryTotals(_, _, _)
CategoryTotals(costs, currency, rates) ==
  IF costs = <<>> THEN EmptyObject
  ELSE LET n == Len(costs)
       IN CategoryStep(CategoryTotals(SubSeq(costs, 1, n - 1), currency, rates),
                       costs[n], currency, rates)

\* the positions of obj.keys in the order Object.keys lists them: array
\* indexes in ascending numeric order, then the other keys in creation order
RECURSIVE SortedIndexKeys(_)
SortedIndexKeys(S) ==
  IF S = {} THEN <<>>
  ELSE LET m == CHOOSE k \in S : \A o \in S : DecimalValue(k) <= DecimalValue(o)
       IN <<m>> \o SortedIndexKeys(S \ {m})

ObjectKeys(obj) ==
  LET idx == {obj.keys[i] : i \in {j \in 1..Len(obj.keys) : IsArrayIndex(obj.keys[j])}}
  IN SortedIndexKeys(idx) \o SelectSeq(obj.keys, LAMBDA k : ~IsArrayIndex(k))

CategoryValue(currency, costs, rates) ==
  LET categoryTotals == CategoryTotals(costs, currency, rates)
      ks == ObjectKeys(categoryTotals)
  IN [i \in 1..Len(ks) |->
        [name |-> ks[i], value |-> ObjGet(categoryTotals, ks[i])]]

(***************************************************************************)
(* getYearlyReport (lines 286-324).                                        *)
(***************************************************************************)
monthNames ==
  <<"Jan", "Feb", "Mar", "Apr", "May", "Jun", "Jul", "Aug", "Sep", "Oct",
    "Nov", "Dec">>

\* monthlyTotals[cost.month - 1] += convertedAmount; the array index i0 is
\* position i0 + 1 of the sequence
YearlyStepAllInFirst(monthlyTotals, cost, currency, rates) ==
  LET convertedAmount ==
        convertCurrency(cost.sum, cost.currency, currency, rates)
  IN [monthlyTotals EXCEPT ![1] = NumAdd(@, convertedAmount)]

YearlyStep(monthlyTotals, cost, currency, rates) ==
  LET convertedAmount ==
        convertCurrency(cost.sum, cost.currency, currency, rates)
      i0 == cost.month - 1
  IN [monthlyTotals EXCEPT ![i0 + 1] = NumAdd(@, convertedAmount)]

RECURSIVE MonthlyTotals(_, _, _)
MonthlyTotals(costs, currency, rates) ==
  IF costs = <<>> THEN [i \in 1..12 |-> Zero]
  ELSE LET n == Len(costs)
       IN YearlyStep(MonthlyTotals(SubSeq(costs, 1, n - 1), currency, rates),
                     costs[n], currency, rates)

YearlyValue(currency, costs, rates) ==
  LET monthlyTotals == MonthlyTotals(costs, currency, rates)
  IN [i \in 1..Len(monthlyTotals) |->
        [month |-> monthNames[i], total |-> monthlyTotals[i]]]

(***************************************************************************)
(* The inputs the callers and the environment choose from.  The profile    *)
(* "sequential" is a page that awaits each promise before the next call    *)
(* and varies the data; the profile "concurrent" keeps several promises    *)
(* outstanding and varies the data less; the profile "live" is a page that *)
(* awaits each promise, with the data of the concurrent one.               *)
(***************************************************************************)
SlotsOf(p) ==
  IF p \in {"sequential", "live", "form"} THEN {1}
  ELSE IF p = "handles" THEN {1, 2}
  ELSE Slots

\* App.jsx opens "costsdb"; the origin may hold other databases
DbNamesOf(p) == IF p = "handles" THEN {"costsdb", "testdb"} ELSE {"costsdb"}
DbNames == {"costsdb", "testdb"}
VersionsOf(p) == IF p = "sequential" THEN {1, 2} ELSE {1}

\* what the form may pass to addCost; id is a property the caller may add
\* to the argument (0: the argument has no such property)
Cost(sum, currency, category, description, id) ==
  [sum |-> sum, currency |-> currency, category |-> category,
   description |-> description, id |-> id]

\* values of new Date(): the local calendar fields getFullYear(),
\* getMonth() (zero-based) and getDate() read
DateValue(fullYear, monthIndex, date) ==
  [fullYear |-> fullYear, monthIndex |-> monthIndex, date |-> date]

Dec2024 == DateValue(2024, 11, 31)
Jan2025 == DateValue(2025, 0, 1)
Dec2025 == DateValue(2025, 11, 2)

Lunch == Cost(<<100, 1>>, "USD", S_Food, "lunch", 0)
Bus == Cost(<<34, 1>>, "ILS", S_2, "bus", 7)

\* the submissions: what addCost is called with, and the clock at the call
SubmissionsOf(p) ==
  IF p = "sequential"
    THEN { <<Lunch, Dec2024>>, <<Lunch, Jan2025>>, <<Lunch, Dec2025>>,
           <<Bus, Dec2024>>, <<Bus, Jan2025>>,
           <<Cost(<<25, 2>>, "GBP", S_Food, "", 0), Jan2025>>,
           <<Cost(<<7, 1>>, "EURO", S_1, "", 0), Jan2025>>,
           <<Cost(<<10, 1>>, "USD", S_toString, "", 0), Jan2025>>,
           <<Cost(<<5, 1>>, "ILS", S_proto, "", 0), Jan2025>> }
    ELSE { <<Bus, Jan2025>> }

\* the periods and target currencies the report views ask for
PeriodsOf(p) ==
  IF p = "sequential"
    THEN { <<2024, 12>>, <<2025, 1>>, <<2025, 12>> }
    ELSE { <<2025, 1>> }
YearsOf(p) == { period[1] : period \in PeriodsOf(p) }
TargetCurrenciesOf(p) == IF p = "sequential" THEN {"USD", "GBP"} ELSE {"USD"}

LiveRates ==
  JsonObject([USD |-> <<1, 1>>, GBP |-> <<1, 2>>, EURO |-> <<4, 5>>,
              ILS |-> <<4, 1>>])
\* a table of the endpoint without ILS and with a zero rate
PartialRates == JsonObject([USD |-> <<1, 1>>, GBP |-> <<0, 1>>, EURO |-> <<4, 5>>])

\* currencyService: the URL the rates are fetched from
DEFAULT_EXCHANGE_RATE_URL ==
  "https://hitmichael6-bit.github.io/FrontEndCosts/rates.json"

\* localStorage.getItem("exchangeRateUrl") || DEFAULT_EXCHANGE_RATE_URL,
\* stored being the item ("" when it is not set, or set to "")
GetExchangeRateUrlDefaultOnly(stored) == DEFAULT_EXCHANGE_RATE_URL

getExchangeRateUrl(stored) ==
  IF stored # "" THEN stored ELSE DEFAULT_EXCHANGE_RATE_URL

\* a URL the user saves in Settings, and the table its endpoint serves
CustomUrl == "https://rates.example/custom.json"
CustomRates ==
  JsonObject([USD |-> <<1, 1>>, GBP |-> <<1, 4>>, EURO |-> <<1, 2>>,
              ILS |-> <<2, 1>>])

\* what the user may save in Settings ("": the field was emptied)
SavedUrlsOf(p) == {"", CustomUrl}

FetchOutcomesOf(p) ==
  IF p = "sequential"
    THEN { FetchFailed,
           Response(404, TRUE, LiveRates),
           Response(200, FALSE, JsonNull),
           Response(200, TRUE, LiveRates),
           Response(200, TRUE, PartialRates),
           Response(200, TRUE, JsonNull) }
    ELSE IF p = "handles" THEN { Response(200, TRUE, LiveRates) }
    ELSE { FetchFailed, Response(200, TRUE, LiveRates) }

\* what the endpoint at url may answer to one fetch
AnswersOf(url, p) ==
  IF url = DEFAULT_EXCHANGE_RATE_URL THEN FetchOutcomesOf(p)
  ELSE { FetchFailed, Response(200, TRUE, CustomRates) }

(***************************************************************************)
(* State.                                                                  *)
(***************************************************************************)
VARIABLES
  disk,        \* the origin's IndexedDB databases, by name
  dbInstance,  \* idb.js line 11: the module's connection, or NullRef
  conns,       \* names of the databases this page holds a connection to
  calls,       \* the promises handed out, by slot
  profile,     \* which callers the page has: it fixes the inputs they choose
  exchangeRateUrl,  \* localStorage item "exchangeRateUrl" ("": not set)
  page         \* the state of App and of AddCostForm (useState)

vars == <<disk, dbInstance, conns, calls, profile, exchangeRateUrl, page>>

\* App before its effect has run (App.jsx 51-54) and the empty form
\* (AddCostForm.jsx 23-34): db is null, no message is shown
NoPage ==
  [mounted |-> FALSE, db |-> "null", sum |-> <<>>, category |-> <<>>,
   error |-> "", success |-> FALSE]

NullRef == "null"

\* a database that does not exist has version 0
NoDatabase ==
  [version |-> 0, stores |-> {}, indexes |-> {}, records |-> <<>>,
   keygen |-> 1, pending |-> 0]

AllIndexes == {"category", "dateAdded", "year_month", "year"}

\* request.onupgradeneeded of openCostsDB (lines 41-64)
UpgradeAlwaysCreates(db) ==
  [db EXCEPT !.stores = @ \cup {"costs"}, !.indexes = AllIndexes,
             !.records = <<>>, !.keygen = 1]

UpgradeNeeded(db) ==
  IF "costs" \notin db.stores
    THEN [db EXCEPT !.stores = @ \cup {"costs"}, !.indexes = AllIndexes]
    ELSE db

\* request.onupgradeneeded of the vanilla library (unnamed/part_000, 37-52)
VanillaUpgradeNeeded(db) ==
  IF "costs" \notin db.stores
    THEN [db EXCEPT !.stores = @ \cup {"costs"},
                    !.indexes = {"category", "dateAdded", "year_month"}]
    ELSE db

NoCost == [sum |-> Zero, currency |-> "", category |-> <<>>, description |-> "", id |-> 0]
NoItem ==
  [sum |-> Zero, currency |-> "", category |-> <<>>, description |-> "",
   dateAdded |-> [fullYear |-> 0, monthIndex |-> 0, date |-> 0],
   year |-> 0, month |-> 0, day |-> 0]

Idle ==
  [op |-> "none", pc |-> "idle", name |-> "", version |-> 0, cost |-> NoCost,
   item |-> NoItem, year |-> 0, month |-> 0, currency |-> "", db |-> NullRef,
   costs |-> <<>>, response |-> FetchFailed, fetched |-> "",
   rates |-> JsonNull,
   value |-> <<>>, error |-> "", tx |-> FALSE, fetches |-> 0, url |-> "",
   back |-> Zero, via |-> ""]

Settled(s) == calls[s].pc \in {"resolved", "rejected"}

\* The reactions of a settled promise are microtasks: they run before any
\* other callback or call, so nothing else happens while one is settled.
Quiet == \A s \in Slots : ~Settled(s)

Free(s) == Quiet /\ s \in SlotsOf(profile) /\ calls[s].pc = "idle"

Resolve(c, value) == [c EXCEPT !.pc = "resolved", !.value = value]
Reject(c, error) == [c EXCEPT !.pc = "rejected", !.error = error]

\* the guard on dbInstance that opens addCost and the three reports:
\* reject(new Error("Database not opened")); return.  (Without the guard,
\* dbInstance.transaction throws a TypeError on null.)
NotOpenedUnguarded(c) == Reject([c EXCEPT !.tx = TRUE], "TypeError")

NotOpened(c) == Reject(c, "Database not opened")

ReportOps == {"getReport", "getCostsByCategory", "getYearlyReport"}

\* the records a database holds, the uncommitted one excluded
Committed(db) == SubSeq(db.records, 1, Len(db.records) - db.pending)

Init ==
  /\ disk \in [DbNames -> {NoDatabase}]
  /\ dbInstance = NullRef
  /\ conns = {}
  /\ calls = [s \in Slots |-> Idle]
  /\ profile = "sequential"
  /\ exchangeRateUrl = ""
  /\ page = NoPage

(***************************************************************************)
(* openCostsDB (lines 17-66).                                              *)
(***************************************************************************)
Handle == <<"addCost", "getReport", "getCostsByCategory", "getYearlyReport">>

OpenCostsDB(s, databaseName, databaseVersion) ==
  /\ Free(s)
  /\ calls' = [calls EXCEPT ![s] =
       [Idle EXCEPT !.op = "openCostsDB", !.pc = "request",
                    !.name = databaseName, !.version = databaseVersion]]
  /\ UNCHANGED <<disk, dbInstance, conns, profile, exchangeRateUrl, page>>

\* another open request of this page is upgrading the database
Upgrading(name) ==
  \E s \in Slots : calls[s].op = "openCostsDB" /\ calls[s].pc = "upgraded"
                   /\ calls[s].name = name

\* request.onerror: the engine refuses (a lower version than the stored
\* one, a quota or disk problem)
OpenOnErrorClearsInstance(s) ==
  /\ Quiet
  /\ calls[s].op = "openCostsDB" /\ calls[s].pc = "request"
  /\ calls' = [calls EXCEPT ![s] = Reject(@, "Failed to open database")]
  /\ dbInstance' = NullRef
  /\ UNCHANGED <<disk, conns, profile, exchangeRateUrl, page>>

OpenOnErrorKeepsHandle(s) ==
  /\ Quiet
  /\ calls[s].op = "openCostsDB" /\ calls[s].pc = "request"
  /\ calls' = [calls EXCEPT ![s] = Reject(@, "Failed to open database")]
  /\ dbInstance' = calls[s].name
  /\ conns' = conns \cup {calls[s].name}
  /\ UNCHANGED <<disk, profile, exchangeRateUrl, page>>

OpenOnError(s) ==
  /\ Quiet
  /\ calls[s].op = "openCostsDB" /\ calls[s].pc = "request"
  /\ calls' = [calls EXCEPT ![s] = Reject(@, "Failed to open database")]
  /\ UNCHANGED <<disk, dbInstance, conns, profile, exchangeRateUrl, page>>

\* request.onupgradeneeded: fired when the requested version is above the
\* stored one and no other connection to the database is open
OpenOnUpgradeNeeded(s) ==
  LET c == calls[s] IN
  /\ Quiet
  /\ c.op = "openCostsDB" /\ c.pc = "request"
  /\ c.version > disk[c.name].version
  /\ c.name \notin conns
  /\ disk' = [disk EXCEPT ![c.name] =
                [UpgradeNeeded(@) EXCEPT !.version = c.version]]
  /\ conns' = conns \cup {c.name}
  /\ calls' = [calls EXCEPT ![s].pc = "upgraded"]
  /\ UNCHANGED <<dbInstance, profile, exchangeRateUrl, page>>

\* request.onsuccess
OpenOnSuccess(s) ==
  LET c == calls[s] IN
  /\ Quiet
  /\ c.op = "openCostsDB"
  /\ \/ c.pc = "upgraded"
     \/ c.pc = "request" /\ c.version = disk[c.name].version
        /\ ~Upgrading(c.name)
  /\ dbInstance' = c.name
  /\ conns' = conns \cup {c.name}
  /\ calls' = [calls EXCEPT ![s] = Resolve(@, Handle)]
  /\ UNCHANGED <<disk, profile, exchangeRateUrl, page>>

(***************************************************************************)
(* addCost (lines 72-117).                                                 *)
(***************************************************************************)
\* the item with every property of the argument copied: {...cost, ...}
CostItemSpread(cost, now) ==
  [sum |-> cost.sum, currency |-> cost.currency, category |-> cost.category,
   description |-> cost.description, id |-> cost.id, dateAdded |-> now,
   year |-> now.fullYear, month |-> now.monthIndex + 1, day |-> now.date]

CostItemZeroBasedMonth(cost, now) ==
  [sum |-> cost.sum, currency |-> cost.currency, category |-> cost.category,
   description |-> cost.description, dateAdded |-> now,
   year |-> now.fullYear, month |-> now.monthIndex, day |-> now.date]

CostItem(cost, now) ==
  [sum |-> cost.sum, currency |-> cost.currency, category |-> cost.category,
   description |-> cost.description, dateAdded |-> now,
   year |-> now.fullYear, month |-> now.monthIndex + 1, day |-> now.date]

\* add requests of this page not yet answered
AddsInFlight ==
  Cardinality({s \in Slots : calls[s].op = "addCost" /\ calls[s].pc = "request"})

RECURSIVE TotalRecords(_)
TotalRecords(names) ==
  IF names = {} THEN 0
  ELSE LET n == CHOOSE x \in names : TRUE
       IN Len(disk[n].records) + TotalRecords(names \ {n})

AddCost(s, cost, now) ==
  /\ Free(s)
  /\ LET c == [Idle EXCEPT !.op = "addCost", !.cost = cost] IN
     IF dbInstance = NullRef
       THEN calls' = [calls EXCEPT ![s] = NotOpened(c)]
       ELSE /\ TotalRecords(DbNames) + AddsInFlight < MaxRecords
            /\ IF "costs" \notin disk[dbInstance].stores
                 THEN calls' = [calls EXCEPT ![s] = Reject(c, "NotFoundError")]
                 ELSE calls' = [calls EXCEPT ![s] =
                        [c EXCEPT !.pc = "request", !.item = CostItem(cost, now),
                                  !.db = dbInstance, !.tx = TRUE]]
  /\ UNCHANGED <<disk, dbInstance, conns, profile, exchangeRateUrl, page>>

AddedSummaryWithDate(costItem) ==
  [sum |-> costItem.sum, currency |-> costItem.currency,
   category |-> costItem.category, description |-> costItem.description,
   dateAdded |-> costItem.dateAdded]

AddedSummary(costItem) ==
  [sum |-> costItem.sum, currency |-> costItem.currency,
   category |-> costItem.category, description |-> costItem.description]

\* the key the store gives an added item (keyPath "id", autoIncrement): the
\* item's own id when it has one, the key generator's number otherwise
KeyOf(costItem, keygen) ==
  IF "id" \in DOMAIN costItem /\ costItem.id # 0 THEN costItem.id ELSE keygen

\* the key generator after the add: above every key it has seen
KeygenAfter(key, keygen) == IF key >= keygen THEN key + 1 ELSE keygen

\* the record the store keeps: the item with its key at keyPath id
StoredRecord(costItem, id) ==
  [id |-> id, sum |-> costItem.sum, currency |-> costItem.currency,
   category |-> costItem.category, description |-> costItem.description,
   dateAdded |-> costItem.dateAdded, year |-> costItem.year,
   month |-> costItem.month, day |-> costItem.day]

\* objectStore.add(costItem): the store gains the record, after the others
StoreReplaceLast(records, record) ==
  IF records = <<>> THEN <<record>>
  ELSE [records EXCEPT ![Len(records)] = record]

StoreAdd(records, record) == Append(records, record)

\* request.onsuccess of objectStore.add: the engine has put the record in
\* the store inside the transaction, which is still to commit
AddOnSuccess(s) ==
  LET c == calls[s] IN
  /\ Quiet
  /\ c.op = "addCost" /\ c.pc = "request"
  /\ disk[c.db].pending = 0
  /\ disk' = [disk EXCEPT ![c.db] =
       [@ EXCEPT !.records =
                   StoreAdd(@, StoredRecord(c.item, KeyOf(c.item, disk[c.db].keygen))),
                 !.keygen = KeygenAfter(KeyOf(c.item, @), @), !.pending = 1]]
  /\ calls' = [calls EXCEPT ![s] =
                 Resolve(@, AddedSummary(c.item))]
  /\ UNCHANGED <<dbInstance, conns, profile, exchangeRateUrl, page>>

\* request.onerror of objectStore.add: nothing is stored
AddOnErrorAfterStore(s) ==
  LET c == calls[s] IN
  /\ Quiet
  /\ c.op = "addCost" /\ c.pc = "request"
  /\ disk[c.db].pending = 0
  /\ disk' = [disk EXCEPT ![c.db] =
       [@ EXCEPT !.records =
                   StoreAdd(@, StoredRecord(c.item, KeyOf(c.item, disk[c.db].keygen))),
                 !.keygen = KeygenAfter(KeyOf(c.item, @), @), !.pending = 1]]
  /\ calls' = [calls EXCEPT ![s] = Reject(@, "Failed to add cost item")]
  /\ UNCHANGED <<dbInstance, conns, profile, exchangeRateUrl, page>>

AddOnErrorSilent(s) ==
  /\ Quiet
  /\ calls[s].op = "addCost" /\ calls[s].pc = "request"
  /\ calls' = [calls EXCEPT ![s].pc = "failed"]
  /\ UNCHANGED <<disk, dbInstance, conns, profile, exchangeRateUrl, page>>

AddOnError(s) ==
  /\ Quiet
  /\ calls[s].op = "addCost" /\ calls[s].pc = "request"
  /\ calls' = [calls EXCEPT ![s] = Reject(@, "Failed to add cost item")]
  /\ UNCHANGED <<disk, dbInstance, conns, profile, exchangeRateUrl, page>>

\* the engine commits the readwrite transaction of the last add
TxComplete(name) ==
  /\ Quiet
  /\ disk[name].pending = 1
  /\ disk' = [disk EXCEPT ![name].pending = 0]
  /\ UNCHANGED <<dbInstance, conns, calls, profile, exchangeRateUrl, page>>

\* the engine aborts it (a failed commit): the add and the key generator
\* are rolled back
RollBack(db) ==
  [db EXCEPT !.records = Committed(db), !.keygen = @ - db.pending,
             !.pending = 0]

TxAbort(name) ==
  /\ Quiet
  /\ disk[name].pending = 1
  /\ disk' = [disk EXCEPT ![name] = RollBack(@)]
  /\ UNCHANGED <<dbInstance, conns, calls, profile, exchangeRateUrl, page>>

(***************************************************************************)
(* getReport, getCostsByCategory, getYearlyReport (lines 123-336).         *)
(***************************************************************************)
\* the index each operation queries
IndexOf(op) == IF op = "getYearlyReport" THEN "year" ELSE "year_month"

\* the error each operation's request.onerror rejects with
QueryErrorOfGetReport(op) == "Failed to get report"

QueryErrorOf(op) ==
  CASE op = "getReport" -> "Failed to get report"
    [] op = "getCostsByCategory" -> "Failed to get costs by category"
    [] op = "getYearlyReport" -> "Failed to get yearly report"

\* the synchronous part of a report operation: the guard on dbInstance,
\* then transaction(), objectStore(), index() and getAll(), which throw
\* NotFoundError inside the promise executor when the store or the index
\* does not exist
StartQueryFetchesFirst(s, c) ==
  LET d == [c EXCEPT !.fetches = 1,
                     !.url = getExchangeRateUrl(exchangeRateUrl)] IN
  /\ Free(s)
  /\ IF dbInstance = NullRef
       THEN calls' = [calls EXCEPT ![s] = NotOpened(d)]
       ELSE IF "costs" \notin disk[dbInstance].stores
         THEN calls' = [calls EXCEPT ![s] = Reject(d, "NotFoundError")]
       ELSE IF IndexOf(c.op) \notin disk[dbInstance].indexes
         THEN calls' = [calls EXCEPT ![s] =
                          Reject([d EXCEPT !.tx = TRUE, !.db = dbInstance],
                                 "NotFoundError")]
       ELSE calls' = [calls EXCEPT ![s] =
                        [d EXCEPT !.pc = "request", !.db = dbInstance,
                                  !.tx = TRUE]]
  /\ UNCHANGED <<disk, dbInstance, conns, profile, exchangeRateUrl, page>>

StartQuery(s, c) ==
  /\ Free(s)
  /\ IF dbInstance = NullRef
       THEN calls' = [calls EXCEPT ![s] = NotOpened(c)]
       ELSE IF "costs" \notin disk[dbInstance].stores
         THEN calls' = [calls EXCEPT ![s] = Reject(c, "NotFoundError")]
       ELSE IF IndexOf(c.op) \notin disk[dbInstance].indexes
         THEN calls' = [calls EXCEPT ![s] =
                          Reject([c EXCEPT !.tx = TRUE, !.db = dbInstance],
                                 "NotFoundError")]
       ELSE calls' = [calls EXCEPT ![s] =
                        [c EXCEPT !.pc = "request", !.db = dbInstance,
                                  !.tx = TRUE]]
  /\ UNCHANGED <<disk, dbInstance, conns, profile, exchangeRateUrl, page>>

GetReport(s, year, month, currency) ==
  StartQuery(s, [Idle EXCEPT !.op = "getReport", !.year = year,
                             !.month = month, !.currency = currency])

GetCostsByCategory(s, year, month, currency) ==
  StartQuery(s, [Idle EXCEPT !.op = "getCostsByCategory", !.year = year,
                             !.month = month, !.currency = currency])

GetYearlyReport(s, year, currency) ==
  StartQuery(s, [Idle EXCEPT !.op = "getYearlyReport", !.year = year,
                             !.currency = currency])

\* index.getAll(key): the records whose index key equals key, in primary
\* key order
GetAllYearMonthIgnoresYear(records, year, month) ==
  SelectSeq(records, LAMBDA r : r.month = month)

GetAllYearMonthNewestFirst(records, year, month) ==
  LET found == SelectSeq(records, LAMBDA r : <<r.year, r.month>> = <<year, month>>)
  IN [i \in 1..Len(found) |-> found[Len(found) + 1 - i]]

GetAllYearMonth(records, year, month) ==
  SelectSeq(records, LAMBDA r : <<r.year, r.month>> = <<year, month>>)

GetAllYearEveryRecord(records, year) == records

GetAllYear(records, year) ==
  SelectSeq(records, LAMBDA r : r.year = year)

QueryResult(c) ==
  IF c.op = "getYearlyReport"
    THEN GetAllYear(disk[c.db].records, c.year)
    ELSE GetAllYearMonth(disk[c.db].records, c.year, c.month)

\* request.onsuccess of the three operations, up to the await: the result
\* is kept and fetchExchangeRates() reads the URL and issues the fetch (its
\* part before the first await runs inside the call).  A readonly
\* transaction runs only when no readwrite transaction is uncommitted.
QueryOnSuccess(s) ==
  LET c == calls[s] IN
  /\ Quiet
  /\ c.op \in ReportOps /\ c.pc = "request"
  /\ disk[c.db].pending = 0
  /\ calls' = [calls EXCEPT ![s] =
       [c EXCEPT !.pc = "fetching", !.costs = QueryResult(c),
                 !.fetches = @ + 1,
                 !.url = getExchangeRateUrl(exchangeRateUrl)]]
  /\ UNCHANGED <<disk, dbInstance, conns, profile, exchangeRateUrl, page>>

\* request.onerror of the three operations
QueryOnError(s) ==
  LET c == calls[s] IN
  /\ Quiet
  /\ c.op \in ReportOps /\ c.pc = "request"
  /\ calls' = [calls EXCEPT ![s] = Reject(c, QueryErrorOf(c.op))]
  /\ UNCHANGED <<disk, dbInstance, conns, profile, exchangeRateUrl, page>>

\* what the operation resolves with once the rates are there
ValueOf(c, rates) ==
  CASE c.op = "getReport" ->
         ReportValue(c.year, c.month, c.currency, c.costs, rates)
    [] c.op = "getCostsByCategory" ->
         CategoryValue(c.currency, c.costs, rates)
    [] c.op = "getYearlyReport" ->
         YearlyValue(c.currency, c.costs, rates)

\* the rest of request.onsuccess after await fetchExchangeRates(): the
\* try block resolves, and its catch rejects with what was thrown
RatesArriveReadsStoreAgain(s, outcome) ==
  LET c == calls[s]
      fetched == fetchExchangeRates(outcome)
      rates == fetched.value
      d == [c EXCEPT !.response = outcome, !.fetched = fetched.state,
                     !.rates = rates, !.costs = QueryResult(c)]
  IN
  /\ Quiet
  /\ c.op \in ReportOps /\ c.pc = "fetching"
  /\ outcome \in AnswersOf(c.url, profile)
  /\ calls' = [calls EXCEPT ![s] =
       IF fetched.state = "rejected"
         THEN Reject(d, "Failed to fetch exchange rates")
       ELSE IF AnyConvertThrows(d.costs, c.currency, rates)
         THEN Reject(d, "TypeError")
       ELSE Resolve(d, ValueOf(d, rates))]
  /\ UNCHANGED <<disk, dbInstance, conns, profile, exchangeRateUrl, page>>

RatesArrive(s, outcome) ==
  LET c == calls[s]
      fetched == fetchExchangeRates(outcome)
      rates == fetched.value
      d == [c EXCEPT !.response = outcome, !.fetched = fetched.state,
                     !.rates = rates]
  IN
  /\ Quiet
  /\ c.op \in ReportOps /\ c.pc = "fetching"
  /\ outcome \in AnswersOf(c.url, profile)
  /\ calls' = [calls EXCEPT ![s] =
       IF fetched.state = "rejected"
         THEN Reject(d, "Failed to fetch exchange rates")
       ELSE IF AnyConvertThrows(c.costs, c.currency, rates)
         THEN Reject(d, "TypeError")
       ELSE Resolve(d, ValueOf(c, rates))]
  /\ UNCHANGED <<disk, dbInstance, conns, profile, exchangeRateUrl, page>>

(***************************************************************************)
(* The page is closed and loaded again: the module state starts over, the  *)
(* connections close, an uncommitted transaction is rolled back and the    *)
(* databases stay.                                                         *)
(***************************************************************************)
Reload ==
  /\ Quiet
  /\ disk' = [n \in DbNames |-> RollBack(disk[n])]
  /\ dbInstance' = NullRef
  /\ conns' = {}
  /\ calls' = [s \in Slots |-> Idle]
  /\ UNCHANGED <<profile, exchangeRateUrl, page>>

\* A page of the vanilla library (unnamed/part_000) opens the database on
\* the same origin while this page holds no connection to it: only its
\* upgrade handler touches what this page sees.
VanillaOpenCostsDB(databaseName, databaseVersion) ==
  /\ Quiet
  /\ databaseVersion > disk[databaseName].version
  /\ databaseName \notin conns
  /\ disk' = [disk EXCEPT ![databaseName] =
                [VanillaUpgradeNeeded(@) EXCEPT !.version = databaseVersion]]
  /\ UNCHANGED <<dbInstance, conns, calls, profile, exchangeRateUrl, page>>

\* setExchangeRateUrl(url), called by the Settings view (part_002, 30-33)
SetExchangeRateUrl(url) ==
  /\ Quiet
  /\ exchangeRateUrl' = url
  /\ UNCHANGED <<disk, dbInstance, conns, calls, profile, page>>

\* the caller's reaction to a settled promise: it takes the value or the
\* error, and the promise is dropped
Return(s) ==
  /\ Settled(s)
  /\ calls' = [calls EXCEPT ![s] = Idle]
  /\ UNCHANGED <<disk, dbInstance, conns, profile, exchangeRateUrl, page>>

Next ==
  \/ \E s \in Slots, n \in DbNamesOf(profile), v \in VersionsOf(profile) :
       OpenCostsDB(s, n, v)
  \/ \E s \in Slots : OpenOnError(s)
  \/ \E s \in Slots : OpenOnUpgradeNeeded(s)
  \/ \E s \in Slots : OpenOnSuccess(s)
  \/ \E s \in Slots, sub \in SubmissionsOf(profile) : AddCost(s, sub[1], sub[2])
  \/ \E s \in Slots : AddOnSuccess(s)
  \/ \E s \in Slots : AddOnError(s)
  \/ \E n \in DbNames : TxComplete(n)
  \/ \E n \in DbNames : TxAbort(n)
  \/ \E s \in Slots, period \in PeriodsOf(profile),
        cur \in TargetCurrenciesOf(profile) :
       GetReport(s, period[1], period[2], cur)
  \/ \E s \in Slots, period \in PeriodsOf(profile),
        cur \in TargetCurrenciesOf(profile) :
       GetCostsByCategory(s, period[1], period[2], cur)
  \/ \E s \in Slots, y \in YearsOf(profile), cur \in TargetCurrenciesOf(profile) :
       GetYearlyReport(s, y, cur)
  \/ \E s \in Slots : QueryOnSuccess(s)
  \/ \E s \in Slots : QueryOnError(s)
  \/ \E s \in Slots,
        outcome \in AnswersOf(DEFAULT_EXCHANGE_RATE_URL, profile)
                      \cup AnswersOf(CustomUrl, profile) :
       RatesArrive(s, outcome)
  \/ \E s \in Slots : Return(s)
  \/ \E n \in DbNamesOf(profile) : VanillaOpenCostsDB(n, 1)
  \/ Reload

Spec == Init /\ [][Next]_vars

InitConcurrent ==
  /\ disk \in [DbNames -> {NoDatabase}]
  /\ dbInstance = NullRef
  /\ conns = {}
  /\ calls = [s \in Slots |-> Idle]
  /\ profile = "concurrent"
  /\ exchangeRateUrl = ""
  /\ page = NoPage

\* the page of the concurrent profile also has the Settings view
NextConcurrent ==
  \/ Next
  \/ \E url \in SavedUrlsOf(profile) : SetExchangeRateUrl(url)

SpecConcurrent == InitConcurrent /\ [][NextConcurrent]_vars

(***************************************************************************)
(* The page whose engine delivers a callback for every request and whose   *)
(* rate fetches all settle; the reactions of a settled promise run.        *)
(***************************************************************************)
InitLive ==
  /\ disk \in [DbNames -> {NoDatabase}]
  /\ dbInstance = NullRef
  /\ conns = {}
  /\ calls = [s \in Slots |-> Idle]
  /\ profile = "live"
  /\ exchangeRateUrl = ""
  /\ page = NoPage

\* the success or the error callback of the request of slot s
RequestSettles(s) ==
  AddOnSuccess(s) \/ AddOnError(s) \/ QueryOnSuccess(s) \/ QueryOnError(s)

\* the rate fetch of slot s settles
FetchSettles(s) ==
  \E outcome \in AnswersOf(DEFAULT_EXCHANGE_RATE_URL, profile)
                  \cup AnswersOf(CustomUrl, profile) : RatesArrive(s, outcome)

\* Every request gets a callback, every transaction ends, the reactions of
\* a settled promise run, and no rate fetch stays outstanding for ever.
SpecLive ==
  /\ InitLive /\ [][Next]_vars
  /\ \A s \in Slots : WF_vars(RequestSettles(s))
  /\ \A s \in Slots : WF_vars(Return(s))
  /\ \A n \in DbNames : WF_vars(TxComplete(n) \/ TxAbort(n))
  /\ \A s \in Slots : []<>(calls[s].pc # "fetching")

(***************************************************************************)
(* The page that opens two databases and keeps the object each open        *)
(* resolved with (lines 31-36): its calls go through such an object, as    *)
(* db.addCost(cost) in App.jsx, or through the functions the module        *)
(* exports.  The field via of a call is the database name whose open       *)
(* returned the object, "" for the module's function.                      *)
(***************************************************************************)
InitHandles ==
  /\ disk \in [DbNames -> {NoDatabase}]
  /\ dbInstance = NullRef
  /\ conns = {}
  /\ calls = [s \in Slots |-> Idle]
  /\ profile = "handles"
  /\ exchangeRateUrl = ""
  /\ page = NoPage

\* what the page may call through: the module's functions (""), and the
\* object of every open that has succeeded
Returned == {""} \cup {n \in conns : ~Upgrading(n)}

\* a method of the object of a database bound to that database: what the
\* page would get if the object held its own connection
BoundTo(via) == IF via = "" THEN dbInstance ELSE via

\* the connection a method of the object works on: the object holds the
\* module's functions, which read dbInstance (lines 75, 126, 194, 264)
ConnectionOf(via) == dbInstance

\* handle.addCost(cost)
HandleAddCost(s, via, cost, now) ==
  /\ Free(s)
  /\ via \in Returned
  /\ LET c == [Idle EXCEPT !.op = "addCost", !.cost = cost, !.via = via]
         db == ConnectionOf(via)
     IN
     IF db = NullRef
       THEN calls' = [calls EXCEPT ![s] = NotOpened(c)]
       ELSE /\ TotalRecords(DbNames) + AddsInFlight < MaxRecords
            /\ IF "costs" \notin disk[db].stores
                 THEN calls' = [calls EXCEPT ![s] = Reject(c, "NotFoundError")]
                 ELSE calls' = [calls EXCEPT ![s] =
                        [c EXCEPT !.pc = "request", !.item = CostItem(cost, now),
                                  !.db = db, !.tx = TRUE]]
  /\ UNCHANGED <<disk, dbInstance, conns, profile, exchangeRateUrl, page>>

\* handle.getReport, handle.getCostsByCategory, handle.getYearlyReport
HandleQuery(s, via, c) ==
  LET d == [c EXCEPT !.via = via]
      db == ConnectionOf(via)
  IN
  /\ Free(s)
  /\ via \in Returned
  /\ IF db = NullRef
       THEN calls' = [calls EXCEPT ![s] = NotOpened(d)]
       ELSE IF "costs" \notin disk[db].stores
         THEN calls' = [calls EXCEPT ![s] = Reject(d, "NotFoundError")]
       ELSE IF IndexOf(c.op) \notin disk[db].indexes
         THEN calls' = [calls EXCEPT ![s] =
                          Reject([d EXCEPT !.tx = TRUE, !.db = db],
                                 "NotFoundError")]
       ELSE calls' = [calls EXCEPT ![s] =
                        [d EXCEPT !.pc = "request", !.db = db, !.tx = TRUE]]
  /\ UNCHANGED <<disk, dbInstance, conns, profile, exchangeRateUrl, page>>

HandleGetReport(s, via, year, month, currency) ==
  HandleQuery(s, via, [Idle EXCEPT !.op = "getReport", !.year = year,
                                   !.month = month, !.currency = currency])

HandleGetCostsByCategory(s, via, year, month, currency) ==
  HandleQuery(s, via, [Idle EXCEPT !.op = "getCostsByCategory", !.year = year,
                                   !.month = month, !.currency = currency])

HandleGetYearlyReport(s, via, year, currency) ==
  HandleQuery(s, via, [Idle EXCEPT !.op = "getYearlyReport", !.year = year,
                                   !.currency = currency])

NextHandles ==
  \/ \E s \in Slots, n \in DbNamesOf(profile), v \in VersionsOf(profile) :
       OpenCostsDB(s, n, v)
  \/ \E s \in Slots : OpenOnError(s)
  \/ \E s \in Slots : OpenOnUpgradeNeeded(s)
  \/ \E s \in Slots : OpenOnSuccess(s)
  \/ \E s \in Slots, via \in {""} \cup DbNames, sub \in SubmissionsOf(profile) :
       HandleAddCost(s, via, sub[1], sub[2])
  \/ \E s \in Slots : AddOnSuccess(s)
  \/ \E s \in Slots : AddOnError(s)
  \/ \E n \in DbNames : TxComplete(n)
  \/ \E n \in DbNames : TxAbort(n)
  \/ \E s \in Slots, via \in {""} \cup DbNames, period \in PeriodsOf(profile),
        cur \in TargetCurrenciesOf(profile) :
       HandleGetReport(s, via, period[1], period[2], cur)
  \/ \E s \in Slots, via \in {""} \cup DbNames, period \in PeriodsOf(profile),
        cur \in TargetCurrenciesOf(profile) :
       HandleGetCostsByCategory(s, via, period[1], period[2], cur)
  \/ \E s \in Slots, via \in {""} \cup DbNames, y \in YearsOf(profile),
        cur \in TargetCurrenciesOf(profile) :
       HandleGetYearlyReport(s, via, y, cur)
  \/ \E s \in Slots : QueryOnSuccess(s)
  \/ \E s \in Slots : QueryOnError(s)
  \/ \E s \in Slots, outcome \in AnswersOf(DEFAULT_EXCHANGE_RATE_URL, profile) :
       RatesArrive(s, outcome)
  \/ \E s \in Slots : Return(s)
  \/ Reload

SpecHandles == InitHandles /\ [][NextHandles]_vars

(***************************************************************************)
(* The page as the user sees it: App opens "costsdb" in its effect and     *)
(* keeps what the open resolved with in its state db (App.jsx 51-87), and  *)
(* AddCostForm submits through App's handleAddCost (AddCostForm.jsx        *)
(* 21-81).  The texts of the fields are sequences of characters.           *)
(***************************************************************************)
InitForm ==
  /\ disk \in [DbNames -> {NoDatabase}]
  /\ dbInstance = NullRef
  /\ conns = {}
  /\ calls = [s \in Slots |-> Idle]
  /\ profile = "form"
  /\ exchangeRateUrl = ""
  /\ page = NoPage

\* what App's state db holds once the open has resolved
HandleRef == "handle"

\* what the user may type into the amount and the category fields
SumTexts == { <<>>, <<"0">>, <<"-", "5">>, <<"1", "0">> }
CategoryTexts == { <<>>, <<" ", " ">>, <<" ", "F", "o", "o", "d">> }

\* String.prototype.trim for the blanks of these texts
RECURSIVE TrimStart(_)
TrimStart(str) ==
  IF str # <<>> /\ str[1] = " " THEN TrimStart(Tail(str)) ELSE str

RECURSIVE TrimEnd(_)
TrimEnd(str) ==
  IF str # <<>> /\ str[Len(str)] = " "
    THEN TrimEnd(SubSeq(str, 1, Len(str) - 1)) ELSE str

Trim(str) == TrimEnd(TrimStart(str))

\* the longest initial part of str made of digits
RECURSIVE LeadingDigits(_)
LeadingDigits(str) ==
  IF str # <<>> /\ IsDigit(str[1])
    THEN <<str[1]>> \o LeadingDigits(Tail(str)) ELSE <<>>

\* parseFloat of a text without a fraction or an exponent: blanks, a sign,
\* digits; NaN when no digit follows
ParseFloat(text) ==
  LET str == TrimStart(text)
      negative == str # <<>> /\ str[1] = "-"
      signed == str # <<>> /\ str[1] \in {"-", "+"}
      digits == LeadingDigits(IF signed THEN Tail(str) ELSE str)
  IN IF digits = <<>> THEN NaN
     ELSE <<(IF negative THEN -1 ELSE 1) * DecimalValue(digits), 1>>

\* a <= 0 on numbers: false for NaN
NotAboveZero(a) == a # NaN /\ a[1] <= 0

\* the effect of App: initDb calls openCostsDB("costsdb", 1)
InitDb(s) ==
  /\ Free(s)
  /\ ~page.mounted
  /\ calls' = [calls EXCEPT ![s] =
       [Idle EXCEPT !.op = "openCostsDB", !.pc = "request",
                    !.name = "costsdb", !.version = 1]]
  /\ page' = [page EXCEPT !.mounted = TRUE]
  /\ UNCHANGED <<disk, dbInstance, conns, profile, exchangeRateUrl>>

\* initDb after its await: setDb(database), or console.error in the catch
InitDbSettles(s) ==
  /\ Settled(s)
  /\ calls[s].op = "openCostsDB"
  /\ page' = IF calls[s].pc = "resolved"
               THEN [page EXCEPT !.db = HandleRef] ELSE page
  /\ calls' = [calls EXCEPT ![s] = Idle]
  /\ UNCHANGED <<disk, dbInstance, conns, profile, exchangeRateUrl>>

\* the user fills in the fields (onChange: setSum, setCategory)
TypeFields(sum, category) ==
  /\ Quiet
  /\ page.mounted
  /\ page' = [page EXCEPT !.sum = sum, !.category = category]
  /\ UNCHANGED <<disk, dbInstance, conns, calls, profile, exchangeRateUrl>>

\* the form after a submit that went through: the fields are cleared and
\* the success message is shown (AddCostForm.jsx 67-72)
Succeeded(p) ==
  [p EXCEPT !.sum = <<>>, !.category = <<>>, !.success = TRUE]

\* handleSubmit up to its await (AddCostForm.jsx 40-64), with App's
\* handleAddCost (App.jsx 81-87) and the synchronous part of addCost.  When
\* db is null handleAddCost returns at once, and the rest of handleSubmit
\* runs in the microtasks that follow, before any other event.
HandleSubmit(s, now) ==
  LET p == [page EXCEPT !.error = "", !.success = FALSE]
      cost == Cost(ParseFloat(page.sum), "USD", Trim(page.category), "", 0)
      c == [Idle EXCEPT !.op = "addCost", !.cost = cost]
  IN
  /\ Free(s)
  /\ page.mounted
  /\ IF page.sum = <<>> \/ NotAboveZero(ParseFloat(page.sum))
       THEN /\ page' = [p EXCEPT !.error = "Please enter a valid amount"]
            /\ calls' = calls
     ELSE IF Trim(page.category) = <<>>
       THEN /\ page' = [p EXCEPT !.error = "Please enter a category"]
            /\ calls' = calls
     ELSE IF page.db = NullRef
       THEN /\ page' = Succeeded(p)
            /\ calls' = calls
     ELSE /\ page' = p
          /\ IF dbInstance = NullRef
               THEN calls' = [calls EXCEPT ![s] = NotOpened(c)]
               ELSE /\ TotalRecords(DbNames) + AddsInFlight < MaxRecords
                    /\ IF "costs" \notin disk[dbInstance].stores
                         THEN calls' = [calls EXCEPT ![s] =
                                          Reject(c, "NotFoundError")]
                         ELSE calls' = [calls EXCEPT ![s] =
                                [c EXCEPT !.pc = "request",
                                          !.item = CostItem(cost, now),
                                          !.db = dbInstance, !.tx = TRUE]]
  /\ UNCHANGED <<disk, dbInstance, conns, profile, exchangeRateUrl>>

\* handleSubmit after its await: the success branch, or the catch
SubmitSettles(s) ==
  /\ Settled(s)
  /\ calls[s].op = "addCost"
  /\ page' = IF calls[s].pc = "resolved"
               THEN Succeeded(page)
               ELSE [page EXCEPT !.error = "Failed to add cost item"]
  /\ calls' = [calls EXCEPT ![s] = Idle]
  /\ UNCHANGED <<disk, dbInstance, conns, profile, exchangeRateUrl>>

\* setTimeout(() => setSuccess(false), 3000)
SuccessHides ==
  /\ Quiet
  /\ page.success
  /\ page' = [page EXCEPT !.success = FALSE]
  /\ UNCHANGED <<disk, dbInstance, conns, calls, profile, exchangeRateUrl>>

\* the page is closed and loaded again
FormReload ==
  /\ Quiet
  /\ disk' = [n \in DbNames |-> RollBack(disk[n])]
  /\ dbInstance' = NullRef
  /\ conns' = {}
  /\ calls' = [s \in Slots |-> Idle]
  /\ page' = NoPage
  /\ UNCHANGED <<profile, exchangeRateUrl>>

NextForm ==
  \/ \E s \in Slots : InitDb(s)
  \/ \E s \in Slots : OpenOnError(s)
  \/ \E s \in Slots : OpenOnUpgradeNeeded(s)
  \/ \E s \in Slots : OpenOnSuccess(s)
  \/ \E s \in Slots : InitDbSettles(s)
  \/ \E sum \in SumTexts, category \in CategoryTexts : TypeFields(sum, category)
  \/ \E s \in Slots, now \in {Jan2025, Dec2025} : HandleSubmit(s, now)
  \/ \E s \in Slots : AddOnSuccess(s)
  \/ \E s \in Slots : AddOnError(s)
  \/ \E n \in DbNames : TxComplete(n)
  \/ \E n \in DbNames : TxAbort(n)
  \/ \E s \in Slots : SubmitSettles(s)
  \/ SuccessHides
  \/ FormReload

SpecForm == InitForm /\ [][NextForm]_vars

(***************************************************************************)
(* convertCurrency on its own (lines 367-377): the arguments are drawn at  *)
(* the start, the function is applied, and its result is converted back.   *)
(***************************************************************************)
\* the amounts, among them the 100 of the examples
Amounts ==
  { Norm(n, d) : n \in (-1)..MaxNumerator, d \in {1, 2, 3} } \cup { <<100, 1>> }

\* an object without any key
NoRates == JsonObject(<<>>)

RateTables ==
  { FallbackRates, LiveRates, CustomRates, PartialRates, NoRates, JsonNull }

InitConvert ==
  /\ disk \in [DbNames -> {NoDatabase}]
  /\ dbInstance = NullRef
  /\ conns = {}
  /\ profile = "converter"
  /\ exchangeRateUrl = ""
  /\ page = NoPage
  /\ \E amount \in Amounts, fromCurrency \in CURRENCIES,
        toCurrency \in CURRENCIES, rates \in RateTables :
       calls = [s \in Slots |->
         IF s = 1
           THEN [Idle EXCEPT !.op = "convertCurrency", !.pc = "call",
                             !.cost.sum = amount, !.cost.currency = fromCurrency,
                             !.currency = toCurrency, !.rates = rates]
           ELSE Idle]

\* convertCurrency(amount, fromCurrency, toCurrency, rates)
ConvertCurrency(s) ==
  LET c == calls[s] IN
  /\ c.op = "convertCurrency" /\ c.pc = "call"
  /\ calls' = [calls EXCEPT ![s] =
       IF ConvertThrows(c.cost.currency, c.currency, c.rates)
         THEN [c EXCEPT !.pc = "threw", !.error = "TypeError"]
         ELSE [c EXCEPT !.pc = "returned",
                        !.value = convertCurrency(c.cost.sum, c.cost.currency,
                                                  c.currency, c.rates)]]
  /\ UNCHANGED <<disk, dbInstance, conns, profile, exchangeRateUrl, page>>

\* convertCurrency(result, toCurrency, fromCurrency, rates)
ConvertBack(s) ==
  LET c == calls[s] IN
  /\ c.op = "convertCurrency" /\ c.pc = "returned"
  /\ calls' = [calls EXCEPT ![s] =
       [c EXCEPT !.pc = "back",
                 !.back = convertCurrency(c.value, c.currency, c.cost.currency,
                                          c.rates)]]
  /\ UNCHANGED <<disk, dbInstance, conns, profile, exchangeRateUrl, page>>

NextConvert ==
  \/ \E s \in Slots : ConvertCurrency(s)
  \/ \E s \in Slots : ConvertBack(s)

SpecConvert == InitConvert /\ [][NextConvert]_vars

(***************************************************************************)
(* Properties.                                                             *)
(***************************************************************************)
DataOps == {"addCost"} \cup ReportOps

\* slot s takes a call in this step
Called(s) == calls[s].pc = "idle" /\ calls'[s].pc # "idle"

FourFields(r) ==
  [sum |-> r.sum, currency |-> r.currency, category |-> r.category,
   description |-> r.description]

\* the positions of recs whose year and month are the given ones
InMonth(recs, year, month) ==
  {i \in 1..Len(recs) : recs[i].year = year /\ recs[i].month = month}

\* the sum, over the positions I of recs, of the amounts converted to currency
RECURSIVE SumConverted(_, _, _, _)
SumConverted(recs, I, currency, rates) ==
  IF I = {} THEN Zero
  ELSE LET i == CHOOSE x \in I : TRUE
       IN NumAdd(convertCurrency(recs[i].sum, recs[i].currency, currency, rates),
                 SumConverted(recs, I \ {i}, currency, rates))

\* C1: while the connection is Unopened, every call of addCost, getReport,
\* getCostsByCategory or getYearlyReport is rejected with "Database not
\* opened" in the step of the call itself, without starting a transaction,
\* without issuing a rate fetch and without changing any database.
C1_UnopenedRejects ==
  [][\A s \in Slots :
       (dbInstance = NullRef /\ Called(s) /\ calls'[s].op \in DataOps)
         => /\ calls'[s].pc = "rejected"
            /\ calls'[s].error = "Database not opened"
            /\ ~calls'[s].tx
            /\ calls'[s].fetches = 0
            /\ disk' = disk]_vars

\* a yearly report was refused on an unopened connection while the
\* database holds a record
C1_Witness ==
  \E s \in Slots :
    /\ calls[s].op = "getYearlyReport" /\ calls[s].pc = "rejected"
    /\ calls[s].error = "Database not opened"
    /\ dbInstance = NullRef
    /\ Len(disk["costsdb"].records) > 0

\* C2: when addCost succeeds, the value it resolves with has exactly the
\* four fields sum, currency, category and description, equal to those of
\* the argument (no id, no timestamp), and the store of the connection
\* gains exactly one record, which holds these four values.
C2_AddEchoesInput ==
  [][\A s \in Slots :
       (calls[s].op = "addCost" /\ calls[s].pc = "request"
        /\ calls'[s].pc = "resolved")
         => LET c == calls[s]
                before == disk[c.db].records
                after == disk'[c.db].records
            IN /\ DOMAIN calls'[s].value =
                    {"sum", "currency", "category", "description"}
               /\ calls'[s].value = FourFields(c.cost)
               /\ Len(after) = Len(before) + 1
               /\ SubSeq(after, 1, Len(before)) = before
               /\ FourFields(after[Len(after)]) = FourFields(c.cost)
               /\ \A n \in DbNames \ {c.db} : disk'[n] = disk[n]]_vars

\* addCost has resolved for an argument that carried an id of its own
C2_Witness ==
  \E s \in Slots :
    /\ calls[s].op = "addCost" /\ calls[s].pc = "resolved"
    /\ calls[s].cost.id = 7 /\ calls[s].cost.description = "bus"
    /\ Len(disk[calls[s].db].records) = 2

\* an item of a report shows the record: its sum, currency, category,
\* description and day
ShowsRecord(item, r) ==
  /\ FourFields(item) = FourFields(r)
  /\ item.Date.day = r.day

\* C3: when getReport(year, month, currency) resolves, its costs hold
\* exactly one item per stored record of that year and month and none for
\* any other record, total.total is the sum over those records of the
\* amount converted with the rate table of the call, and total.currency is
\* the requested currency.
C3_ReportItemsAndTotal ==
  \A s \in Slots :
    (calls[s].op = "getReport" /\ calls[s].pc = "resolved")
      => LET c == calls[s]
             recs == disk[c.db].records
             M == InMonth(recs, c.year, c.month)
             items == c.value.costs
         IN /\ Len(items) = Cardinality(M)
            /\ \E f \in [1..Len(items) -> M] :
                 /\ \A j, k \in 1..Len(items) : j # k => f[j] # f[k]
                 /\ \A k \in 1..Len(items) : ShowsRecord(items[k], recs[f[k]])
            /\ c.value.total.total = SumConverted(recs, M, c.currency, c.rates)
            /\ c.value.total.currency = c.currency
            /\ c.value.year = c.year /\ c.value.month = c.month

\* a report of December 2025 in GBP over a store that also holds a record
\* of December 2024, with the live rates
C3_Witness ==
  \E s \in Slots :
    /\ calls[s].op = "getReport" /\ calls[s].pc = "resolved"
    /\ calls[s].year = 2025 /\ calls[s].month = 12
    /\ calls[s].currency = "GBP" /\ calls[s].rates = LiveRates
    /\ Len(calls[s].value.costs) = 1
    /\ calls[s].value.total.total = <<50, 1>>
    /\ Len(disk[calls[s].db].records) = 2

\* C4 (as claimed): when getCostsByCategory resolves, the result has exactly
\* one entry per distinct category of the stored records of that year and
\* month, whatever the category string, and the value of each entry is the
\* sum of the converted amounts of the records of that category.
C4_OneEntryPerCategory ==
  \A s \in Slots :
    (calls[s].op = "getCostsByCategory" /\ calls[s].pc = "resolved")
      => LET c == calls[s]
             recs == disk[c.db].records
             M == InMonth(recs, c.year, c.month)
             entries == c.value
         IN /\ {entries[k].name : k \in 1..Len(entries)} =
                 {recs[i].category : i \in M}
            /\ \A j, k \in 1..Len(entries) :
                 j # k => entries[j].name # entries[k].name
            /\ \A k \in 1..Len(entries) :
                 entries[k].value =
                   NumberValue(SumConverted(recs,
                     {i \in M : recs[i].category = entries[k].name},
                     c.currency, c.rates))

\* the first position of recs, among the positions M, with this category
FirstSeen(recs, M, category) ==
  CHOOSE i \in M :
    /\ recs[i].category = category
    /\ \A j \in M : recs[j].category = category => i <= j

\* C5 (as claimed): the entries of getCostsByCategory are in first-seen
\* order: an entry precedes another when the first matched record of its
\* category was inserted before the first matched record of the other's.
C5_FirstSeenOrder ==
  \A s \in Slots :
    (calls[s].op = "getCostsByCategory" /\ calls[s].pc = "resolved")
      => LET c == calls[s]
             recs == disk[c.db].records
             M == InMonth(recs, c.year, c.month)
             entries == c.value
         IN \A j, k \in 1..Len(entries) :
              (/\ j < k
               /\ \E i \in M : recs[i].category = entries[j].name
               /\ \E i \in M : recs[i].category = entries[k].name)
                => FirstSeen(recs, M, entries[j].name)
                     < FirstSeen(recs, M, entries[k].name)

\* C6: when getYearlyReport(year, currency) resolves, the result has
\* exactly 12 entries labelled Jan to Dec in this order, and every month
\* in which the store has no record of that year has total 0.
C6_TwelveMonths ==
  \A s \in Slots :
    (calls[s].op = "getYearlyReport" /\ calls[s].pc = "resolved")
      => LET c == calls[s]
             recs == disk[c.db].records
         IN /\ Len(c.value) = 12
            /\ [i \in 1..12 |-> c.value[i].month] =
                 <<"Jan", "Feb", "Mar", "Apr", "May", "Jun", "Jul", "Aug",
                   "Sep", "Oct", "Nov", "Dec">>
            /\ \A m \in 1..12 :
                 InMonth(recs, c.year, m) = {} => c.value[m].total = Zero

\* a yearly report of 2025 over a store with a record of December 2025 and
\* a record of December 2024: December has a total, the other months 0
C6_Witness ==
  \E s \in Slots :
    /\ calls[s].op = "getYearlyReport" /\ calls[s].pc = "resolved"
    /\ calls[s].year = 2025
    /\ calls[s].value[12].total = <<100, 1>>
    /\ \A m \in 1..11 : calls[s].value[m].total = Zero
    /\ \E i \in 1..Len(disk[calls[s].db].records) :
         disk[calls[s].db].records[i].year = 2024

\* C7: fetchExchangeRates never rejects; when the request fails, when the
\* status is not 200 or when the body does not parse, it resolves with the
\* table {USD: 1, GBP: 0.6, EURO: 0.7, ILS: 3.4}, and when the status is 200
\* and the body parses, it resolves with the parsed body.
C7_FetchFallsBack ==
  \A s \in Slots :
    (calls[s].op \in ReportOps /\ calls[s].fetched # "")
      => LET c == calls[s]
             o == c.response
             failed == o.net # "ok" \/ o.status # 200 \/ ~o.parses
         IN /\ c.fetched = "fulfilled"
            /\ failed =>
                 c.rates = [kind |-> "object",
                            table |-> [USD |-> Norm(1, 1), GBP |-> Norm(6, 10),
                                       EURO |-> Norm(7, 10), ILS |-> Norm(34, 10)]]
            /\ ~failed => c.rates = o.json

\* the endpoint answered 404 with a body that is a rate table, and the
\* report was computed with the fallback table
C7_Witness ==
  \E s \in Slots :
    /\ calls[s].op \in ReportOps /\ calls[s].pc = "resolved"
    /\ calls[s].response = Response(404, TRUE, LiveRates)
    /\ calls[s].rates = FallbackRates
    /\ calls[s].costs # <<>>

\* C8 (as claimed): a report operation whose index query succeeded always
\* resolves, whatever the rate endpoint answers.
C8_ReportAlwaysResolves ==
  \A s \in Slots :
    (calls[s].op \in ReportOps /\ calls[s].fetches > 0 /\ Settled(s))
      => calls[s].pc = "resolved"

\* C9 (as claimed): once openCostsDB has succeeded, the costs collection of
\* the connection has the four indexes category, dateAdded, (year, month)
\* and year, so getYearlyReport never fails for a missing index.
C9_AllIndexesAfterOpen ==
  /\ dbInstance # NullRef =>
       /\ "costs" \in disk[dbInstance].stores
       /\ disk[dbInstance].indexes =
            {"category", "dateAdded", "year_month", "year"}
  /\ \A s \in Slots :
       ~(calls[s].op = "getYearlyReport" /\ calls[s].pc = "rejected"
         /\ calls[s].error = "NotFoundError")

\* a step of openCostsDB in slot s: the call or one of its callbacks
OpenStep(s) == calls'[s].op = "openCostsDB" /\ calls'[s].pc # calls[s].pc

\* C10: opening is idempotent on the schema and the data: no step of
\* openCostsDB, with or without an upgrade event, changes the records or
\* the key generator of a database, nor the collections and indexes of a
\* database that already has the costs collection; and the database of the
\* connection has the costs collection and no other.
C10_OpenIdempotent ==
  /\ [](dbInstance # NullRef => disk[dbInstance].stores = {"costs"})
  /\ [][\A s \in Slots :
          OpenStep(s) =>
            \A n \in DbNames :
              /\ disk'[n].records = disk[n].records
              /\ disk'[n].keygen = disk[n].keygen
              /\ "costs" \in disk[n].stores =>
                   /\ disk'[n].stores = disk[n].stores
                   /\ disk'[n].indexes = disk[n].indexes
              /\ n # calls'[s].name => disk'[n] = disk[n]]_vars

\* the upgrade handler has just run on a database that holds a record
C10_Witness ==
  \E s \in Slots :
    /\ calls[s].op = "openCostsDB" /\ calls[s].pc = "upgraded"
    /\ calls[s].version = 2
    /\ Len(disk[calls[s].name].records) > 0

\* C11: once openCostsDB has succeeded, the connection stays Opened for the
\* rest of the session: no step other than the reload of the page (the end
\* of the session) takes dbInstance back to null, a later openCostsDB that
\* fails included, and no call of addCost or of a report made while the
\* connection is Opened is rejected with "Database not opened".
C11_OpenedIsTerminal ==
  [][/\ (dbInstance # NullRef /\ dbInstance' = NullRef) => Reload
     /\ \A s \in Slots :
          (dbInstance # NullRef /\ Called(s) /\ calls'[s].op \in DataOps)
            => calls'[s].error # "Database not opened"]_vars

\* a later openCostsDB has failed while the connection was Opened, and the
\* connection is still there
C11_Witness ==
  \E s \in Slots :
    /\ calls[s].op = "openCostsDB" /\ calls[s].pc = "rejected"
    /\ dbInstance = "costsdb"
    /\ Len(disk["costsdb"].records) > 0

\* C12: when the engine refuses to open (request.onerror), openCostsDB
\* rejects with "Failed to open database" and never resolves afterwards;
\* the step leaves dbInstance, the connections and the databases as they
\* were, so an Unopened connection stays Unopened.
C12_OpenErrorRejects ==
  [][\A s \in Slots :
       /\ (calls[s].op = "openCostsDB" /\ calls[s].pc = "request"
           /\ calls'[s].pc = "rejected")
            => /\ calls'[s].error = "Failed to open database"
               /\ dbInstance' = dbInstance
               /\ conns' = conns
               /\ disk' = disk
       /\ (calls[s].op = "openCostsDB" /\ calls[s].pc = "rejected")
            => calls'[s].pc \in {"rejected", "idle"}]_vars

\* the first open of the session was refused: the connection is still
\* Unopened and the database does not exist
C12_Witness ==
  \E s \in Slots :
    /\ calls[s].op = "openCostsDB" /\ calls[s].pc = "rejected"
    /\ calls[s].error = "Failed to open database"
    /\ dbInstance = NullRef
    /\ disk[calls[s].name].version = 0

\* a is an initial part of b
IsPrefix(a, b) == Len(a) <= Len(b) /\ SubSeq(b, 1, Len(a)) = a

\* a step of a report operation, or of addCost, in slot s: the call or one
\* of its callbacks
ReportStep(s) == calls'[s].op \in ReportOps /\ calls'[s].pc # calls[s].pc
AddStep(s) == calls'[s].op = "addCost" /\ calls'[s].pc # calls[s].pc

\* C13: stored records are immutable and never removed: in every step the
\* committed records of a database are still there afterwards, at the same
\* place, with the same id and the same field values; a step of a report
\* operation changes no database, and a step of addCost only appends.
C13_RecordsImmutable ==
  [][\A n \in DbNames :
       /\ IsPrefix(Committed(disk[n]), Committed(disk'[n]))
       /\ (\E s \in Slots : ReportStep(s)) => disk'[n] = disk[n]
       /\ (\E s \in Slots : AddStep(s)) =>
            IsPrefix(disk[n].records, disk'[n].records)]_vars

\* two committed records have been through an upgrade to version 2 and a
\* report that resolved
C13_Witness ==
  \E s \in Slots :
    /\ calls[s].op \in ReportOps /\ calls[s].pc = "resolved"
    /\ calls[s].costs # <<>>
    /\ disk[calls[s].db].version = 2
    /\ Len(Committed(disk[calls[s].db])) = 2

\* C14: record ids are assigned by the store, unique and monotonic: in every
\* state the ids of the stored records of a database increase strictly in
\* insertion order (so no two are equal), and the id of a record that is
\* added is the number of the store's key generator, whatever id the
\* argument of addCost carried, also when several addCost calls are
\* outstanding.
C14_IdsStoreAssigned ==
  /\ [](\A n \in DbNames :
          \A i, j \in 1..Len(disk[n].records) :
            i < j => disk[n].records[i].id < disk[n].records[j].id)
  /\ [][\A s \in Slots :
          (calls[s].op = "addCost" /\ calls[s].pc = "request"
           /\ calls'[s].pc = "resolved")
            => LET after == disk'[calls[s].db].records
               IN after[Len(after)].id = disk[calls[s].db].keygen]_vars

\* two addCost calls are outstanding at the same time; the one whose
\* argument carried the id 7 has been stored under the id 1, and the other
\* is still waiting
C14_Witness ==
  \E s, t \in Slots :
    /\ s # t
    /\ calls[s].op = "addCost" /\ calls[s].pc = "resolved"
    /\ calls[s].cost.id = 7
    /\ calls[t].op = "addCost" /\ calls[t].pc = "request"
    /\ Len(disk[calls[s].db].records) = 1
    /\ disk[calls[s].db].records[1].id = 1

\* C15: rates are never reused between calls.  A report operation has
\* issued no rate fetch before its query succeeded and exactly one from
\* then on; the fetch goes to the URL configured at that moment; the table
\* of the operation is what fetchExchangeRates makes of the answer to that
\* fetch (the parsed body or the fallback), and the value it resolves with
\* is computed from that table alone.
C15_RatesNeverReused ==
  /\ [](\A s \in Slots :
          calls[s].op \in ReportOps =>
            LET c == calls[s] IN
            /\ c.fetches = IF c.pc = "fetching" \/ c.fetched # "" THEN 1 ELSE 0
            /\ c.fetched # "" =>
                 /\ c.response \in AnswersOf(c.url, profile)
                 /\ c.rates = fetchExchangeRates(c.response).value
            /\ c.pc = "resolved" => c.value = ValueOf(c, c.rates))
  /\ [][\A s \in Slots :
          (calls[s].op \in ReportOps /\ calls[s].pc = "request"
           /\ calls'[s].pc = "fetching")
            => calls'[s].url =
                 (IF exchangeRateUrl # "" THEN exchangeRateUrl
                  ELSE "https://hitmichael6-bit.github.io/FrontEndCosts/rates.json")]_vars

\* two reports are outstanding and the URL was changed between their
\* queries: the first has resolved with the table of the default endpoint,
\* the second is fetching from the custom URL
C15_Witness ==
  \E s, t \in Slots :
    /\ s # t
    /\ calls[s].op \in ReportOps /\ calls[s].pc = "resolved"
    /\ calls[s].url = DEFAULT_EXCHANGE_RATE_URL /\ calls[s].rates = LiveRates
    /\ calls[s].costs # <<>>
    /\ calls[t].op \in ReportOps /\ calls[t].pc = "fetching"
    /\ calls[t].url = CustomUrl

\* C16: when the index query of a report operation fails (request.onerror),
\* the promise is rejected with the error of the operation: "Failed to get
\* report", "Failed to get costs by category" or "Failed to get yearly
\* report"; it is never resolved afterwards, no rate fetch is issued, and
\* the databases are unchanged.
C16_QueryErrorRejects ==
  [][\A s \in Slots :
       /\ (calls[s].op \in ReportOps /\ calls[s].pc = "request"
           /\ calls'[s].pc = "rejected")
            => /\ calls[s].op = "getReport" =>
                    calls'[s].error = "Failed to get report"
               /\ calls[s].op = "getCostsByCategory" =>
                    calls'[s].error = "Failed to get costs by category"
               /\ calls[s].op = "getYearlyReport" =>
                    calls'[s].error = "Failed to get yearly report"
               /\ calls'[s].fetches = 0
               /\ disk' = disk
       /\ (calls[s].op \in ReportOps /\ calls[s].pc = "rejected")
            => calls'[s].pc \in {"rejected", "idle"}]_vars

\* the query of a yearly report has failed on a store that holds a record
\* of the year
C16_Witness ==
  \E s \in Slots :
    /\ calls[s].op = "getYearlyReport" /\ calls[s].pc = "rejected"
    /\ calls[s].error = "Failed to get yearly report"
    /\ \E i \in 1..Len(disk[calls[s].db].records) :
         disk[calls[s].db].records[i].year = calls[s].year

\* C17: when the write of addCost fails (request.onerror), the promise is
\* rejected with "Failed to add cost item" and is never resolved
\* afterwards, and the store holds no record of that call: the databases
\* are as they were before the step.
C17_AddErrorRejects ==
  [][\A s \in Slots :
       /\ (calls[s].op = "addCost" /\ calls[s].pc = "request"
           /\ calls'[s].pc = "rejected")
            => /\ calls'[s].error = "Failed to add cost item"
               /\ disk' = disk
       /\ (calls[s].op = "addCost" /\ calls[s].pc = "rejected")
            => /\ calls'[s].pc \in {"rejected", "idle"}
               /\ disk' = disk]_vars

\* the write of a second cost has failed: the store still holds the first
\* record only
C17_Witness ==
  \E s \in Slots :
    /\ calls[s].op = "addCost" /\ calls[s].pc = "rejected"
    /\ calls[s].error = "Failed to add cost item"
    /\ Len(disk[calls[s].db].records) = 1
    /\ FourFields(disk[calls[s].db].records[1]) # FourFields(calls[s].cost)

\* C18: convertCurrency returns the amount unchanged whenever the source
\* and the target currency are equal, for every rate table: one without an
\* entry for the currency, one with a zero entry, an empty one and null
\* included (the table is not read, so nothing is thrown).
C18_SameCurrencyIdentity ==
  \A s \in Slots :
    (/\ calls[s].op = "convertCurrency" /\ calls[s].pc # "call"
     /\ calls[s].cost.currency = calls[s].currency)
      => /\ calls[s].pc # "threw"
         /\ calls[s].value = calls[s].cost.sum

\* 100 ILS were converted to ILS with a table that has no ILS entry
C18_Witness ==
  \E s \in Slots :
    /\ calls[s].op = "convertCurrency" /\ calls[s].pc = "returned"
    /\ calls[s].cost.currency = "ILS" /\ calls[s].currency = "ILS"
    /\ calls[s].rates = PartialRates
    /\ calls[s].value = <<100, 1>>

\* the product a * t / f of rationals, for f other than zero
Scaled(a, f, t) == Norm(a[1] * f[2] * t[1], a[2] * f[1] * t[2])

\* C19: for different currencies and a table whose rates of the two are
\* numbers other than zero, convertCurrency returns the amount divided by
\* the rate of the source and multiplied by the rate of the target;
\* converting the result back gives the amount again; and 100 USD are 60
\* GBP with the fallback table.  (Exact rational arithmetic.)
C19_PivotThroughUSD ==
  \A s \in Slots :
    LET c == calls[s]
        from == c.cost.currency
        to == c.currency
    IN (/\ c.op = "convertCurrency" /\ c.pc # "call"
        /\ from # to
        /\ c.rates.kind = "object"
        /\ {from, to} \subseteq DOMAIN c.rates.table
        /\ c.rates.table[from][1] # 0 /\ c.rates.table[from][2] # 0
        /\ c.rates.table[to][1] # 0 /\ c.rates.table[to][2] # 0)
         => /\ c.pc \in {"returned", "back"}
            /\ c.value = Scaled(c.cost.sum, c.rates.table[from], c.rates.table[to])
            /\ c.pc = "back" => c.back = c.cost.sum
            /\ (/\ c.cost.sum = <<100, 1>> /\ from = "USD" /\ to = "GBP"
                /\ c.rates.table = [USD |-> <<1, 1>>, GBP |-> <<3, 5>>,
                                    EURO |-> <<7, 10>>, ILS |-> <<17, 5>>])
                 => c.value = <<60, 1>>

\* 100 USD were converted to GBP with the fallback table, and back
C19_Witness ==
  \E s \in Slots :
    /\ calls[s].op = "convertCurrency" /\ calls[s].pc = "back"
    /\ calls[s].cost.sum = <<100, 1>>
    /\ calls[s].cost.currency = "USD" /\ calls[s].currency = "GBP"
    /\ calls[s].rates = FallbackRates
    /\ calls[s].value = <<60, 1>> /\ calls[s].back = <<100, 1>>

\* C20: when getYearlyReport(year, currency) resolves, the total of every
\* month m is the sum of the converted amounts of the stored records of
\* that year and month m: a record adds to the slot of its own month only,
\* and a record of another year adds to no slot.
C20_YearlySlots ==
  \A s \in Slots :
    (calls[s].op = "getYearlyReport" /\ calls[s].pc = "resolved")
      => LET c == calls[s]
             recs == disk[c.db].records
         IN \A m \in 1..12 :
              c.value[m].total =
                SumConverted(recs, InMonth(recs, c.year, m), c.currency, c.rates)

\* a yearly report of 2025 in USD with the live rates over 100 USD and 34
\* ILS of January 2025: January is 108.5 and the other months are 0
C20_Witness ==
  \E s \in Slots :
    /\ calls[s].op = "getYearlyReport" /\ calls[s].pc = "resolved"
    /\ calls[s].year = 2025 /\ calls[s].currency = "USD"
    /\ calls[s].rates = LiveRates
    /\ Len(calls[s].costs) = 2
    /\ calls[s].value[1].total = <<217, 2>>
    /\ \A m \in 2..12 : calls[s].value[m].total = Zero

\* C21: the costs of getReport are in insertion order: the items show the
\* stored records of the requested year and month one by one, and an item
\* that comes earlier shows a record with a smaller id (inserted earlier).
C21_ReportInsertionOrder ==
  \A s \in Slots :
    (calls[s].op = "getReport" /\ calls[s].pc = "resolved")
      => LET c == calls[s]
             recs == disk[c.db].records
             M == InMonth(recs, c.year, c.month)
             items == c.value.costs
         IN \E f \in [1..Len(items) -> M] :
              /\ \A k \in 1..Len(items) : ShowsRecord(items[k], recs[f[k]])
              /\ \A j, k \in 1..Len(items) :
                   j < k => /\ f[j] < f[k]
                            /\ recs[f[j]].id < recs[f[k]].id

\* a report of January 2025 over the lunch, stored first, and the bus
C21_Witness ==
  \E s \in Slots :
    /\ calls[s].op = "getReport" /\ calls[s].pc = "resolved"
    /\ Len(calls[s].value.costs) = 2
    /\ calls[s].value.costs[1].description = "lunch"
    /\ calls[s].value.costs[2].description = "bus"
    /\ disk[calls[s].db].records[1].description = "lunch"

\* C22: every item of the costs of getReport has exactly the fields sum,
\* currency, category, description and Date; sum and currency are those of
\* the stored record (not converted, not the requested currency),
\* category and description are the record's and Date.day is its stored
\* day; only total carries the requested currency.
C22_ItemsNotConverted ==
  \A s \in Slots :
    (calls[s].op = "getReport" /\ calls[s].pc = "resolved")
      => LET c == calls[s]
             items == c.value.costs
         IN /\ Len(items) = Len(c.costs)
            /\ \A k \in 1..Len(items) :
                 /\ DOMAIN items[k] =
                      {"sum", "currency", "category", "description", "Date"}
                 /\ DOMAIN items[k].Date = {"day"}
                 /\ items[k].sum = c.costs[k].sum
                 /\ items[k].currency = c.costs[k].currency
                 /\ items[k].category = c.costs[k].category
                 /\ items[k].description = c.costs[k].description
                 /\ items[k].Date.day = c.costs[k].day
            /\ c.value.total.currency = c.currency

\* a report in USD with the live rates over the bus of 34 ILS: the item
\* still says 34 ILS and the total is 8.5 USD
C22_Witness ==
  \E s \in Slots :
    /\ calls[s].op = "getReport" /\ calls[s].pc = "resolved"
    /\ calls[s].currency = "USD" /\ calls[s].rates = LiveRates
    /\ Len(calls[s].value.costs) = 1
    /\ calls[s].value.costs[1].sum = <<34, 1>>
    /\ calls[s].value.costs[1].currency = "ILS"
    /\ calls[s].value.costs[1].Date.day = 1
    /\ calls[s].value.total.total = <<17, 2>>

\* C23: in every state, the year, month and day of every stored record,
\* and of every item on its way to the store, are the components of the
\* record's own dateAdded: year is its full year, month is its zero-based
\* calendar month plus one (1 to 12) and day is its day of the month.
C23_DateFieldsConsistent ==
  /\ \A n \in DbNames :
       \A i \in 1..Len(disk[n].records) :
         LET r == disk[n].records[i] IN
         /\ r.year = r.dateAdded.fullYear
         /\ r.month = r.dateAdded.monthIndex + 1
         /\ r.month \in 1..12
         /\ r.day = r.dateAdded.date
  /\ \A s \in Slots :
       (calls[s].op = "addCost" /\ calls[s].pc = "request")
         => LET it == calls[s].item IN
            /\ it.year = it.dateAdded.fullYear
            /\ it.month = it.dateAdded.monthIndex + 1
            /\ it.day = it.dateAdded.date

\* a record of 31 December 2024 and one of 1 January 2025 are committed,
\* and the page has been loaded again since
C23_Witness ==
  /\ dbInstance = NullRef
  /\ Len(Committed(disk["costsdb"])) = 2
  /\ disk["costsdb"].records[1].dateAdded = Dec2024
  /\ disk["costsdb"].records[1].month = 12
  /\ disk["costsdb"].records[2].dateAdded = Jan2025
  /\ disk["costsdb"].records[2].month = 1

\* the promise of slot s is pending
Pending(s) == calls[s].op \in DataOps /\ calls[s].pc \in {"request", "fetching"}

\* C24: no operation has a timeout or a cancellation: a pending promise of
\* addCost or of a report moves on only in a callback of its request or
\* when its rate fetch settles (or the page goes away), so without them it
\* stays pending; and when every request gets its callback and every rate
\* fetch settles, every pending promise is eventually settled.
C24_SettlesWithItsCallbacks ==
  /\ [][\A s \in Slots :
          (Pending(s) /\ calls'[s].pc # calls[s].pc)
            => RequestSettles(s) \/ FetchSettles(s) \/ Reload]_vars
  /\ \A s \in Slots :
       Pending(s) ~> (Settled(s) \/ calls[s].pc = "idle")

\* a report by category has resolved after its query succeeded and its
\* rate fetch failed
C24_Witness ==
  \E s \in Slots :
    /\ calls[s].op = "getCostsByCategory" /\ calls[s].pc = "resolved"
    /\ calls[s].fetches = 1 /\ calls[s].response = FetchFailed
    /\ calls[s].costs # <<>>

\* the sum of the values of the entries of a report by category, which are
\* numbers
RECURSIVE SumValues(_)
SumValues(entries) ==
  IF entries = <<>> THEN Zero
  ELSE NumAdd(SumValues(SubSeq(entries, 1, Len(entries) - 1)),
              entries[Len(entries)].value.v)

\* the table has a rate other than zero for the currency of every record
RatesCover(recs, rates) ==
  /\ rates.kind = "object"
  /\ \A i \in 1..Len(recs) :
       /\ recs[i].currency \in DOMAIN rates.table
       /\ rates.table[recs[i].currency][1] # 0
       /\ rates.table[recs[i].currency][2] # 0

\* C25 (as claimed): the three reports agree.  When getCostsByCategory
\* (year, month, currency) resolves with a table that has a rate other than
\* zero for every stored currency, its values are numbers whose sum is the
\* total.total that getReport gives for the same store, table and
\* currency, and the total of the slot of that month in getYearlyReport.
C25_ReportsAgree ==
  \A s \in Slots :
    LET c == calls[s]
        recs == disk[c.db].records
    IN (/\ c.op = "getCostsByCategory" /\ c.pc = "resolved"
        /\ RatesCover(recs, c.rates)
        /\ c.currency \in DOMAIN c.rates.table
        /\ c.rates.table[c.currency][1] # 0)
         => /\ \A k \in 1..Len(c.value) : c.value[k].value.t = "number"
            /\ SumValues(c.value) =
                 ReportValue(c.year, c.month, c.currency,
                             GetAllYearMonth(recs, c.year, c.month),
                             c.rates).total.total
            /\ SumValues(c.value) =
                 YearlyValue(c.currency, GetAllYear(recs, c.year),
                             c.rates)[c.month].total

\* C26: read-your-writes.  A record is in the store only because an addCost
\* promise resolved for it (AddOnSuccess), so the claim says that while the
\* page stays open no step takes a record out of a store: the records of
\* every database are still there after the step, and a report whose query
\* succeeds then reads them.
C26_ResolvedAddIsDurable ==
  [][conns' # {} =>
       \A n \in DbNames : IsPrefix(disk[n].records, disk'[n].records)]_vars

\* C27: a report is computed from the records read when its index query
\* completed and from one rate table.  The step of the query's success keeps
\* the matching records of the store; no later step of anyone changes what
\* the call keeps, not even an addCost that completes while the rate fetch
\* is pending; and the items and totals the call resolves with are those of
\* the kept records, every amount converted with the table of this call.
C27_ReportFromQuerySnapshot ==
  /\ [][\A s \in Slots :
          LET c == calls[s] IN
          /\ (c.op \in ReportOps /\ c.pc = "request" /\ calls'[s].pc = "fetching")
               => calls'[s].costs =
                    (IF c.op = "getYearlyReport"
                       THEN SelectSeq(disk[c.db].records,
                                      LAMBDA r : r.year = c.year)
                       ELSE SelectSeq(disk[c.db].records,
                                      LAMBDA r : r.year = c.year /\ r.month = c.month))
          /\ (c.op \in ReportOps /\ c.pc = "fetching" /\ calls'[s].pc # "idle")
               => calls'[s].costs = c.costs]_vars
  /\ [](\A s \in Slots :
          LET c == calls[s] IN
          /\ (c.op = "getReport" /\ c.pc = "resolved")
               => /\ Len(c.value.costs) = Len(c.costs)
                  /\ \A k \in 1..Len(c.costs) : ShowsRecord(c.value.costs[k], c.costs[k])
                  /\ c.value.total.total =
                       SumConverted(c.costs, 1..Len(c.costs), c.currency, c.rates)
          /\ (c.op = "getYearlyReport" /\ c.pc = "resolved")
               => \A m \in 1..12 :
                    c.value[m].total =
                      SumConverted(c.costs, InMonth(c.costs, c.year, m),
                                   c.currency, c.rates))

\* a report has resolved with the one record its query read although the
\* store holds a second record of that month, added while its rate fetch
\* was pending, and another report, whose query read both, is still fetching
C27_Witness ==
  \E s, t \in Slots :
    /\ s # t
    /\ calls[s].op \in {"getReport", "getYearlyReport"}
    /\ calls[s].pc = "resolved"
    /\ Len(calls[s].costs) = 1
    /\ calls[s].rates = LiveRates
    /\ Len(Committed(disk[calls[s].db])) = 2
    /\ \A i \in 1..2 : disk[calls[s].db].records[i].year = 2025
                       /\ disk[calls[s].db].records[i].month = 1
    /\ calls[t].op \in ReportOps /\ calls[t].pc = "fetching"
    /\ Len(calls[t].costs) = 2

\* C28: in every report operation the rate fetch is issued after the index
\* query has succeeded and at most once.  The number of fetches of a call
\* changes only in the step of its query's success, from 0 to 1, when the
\* store's result is there; a call that waits for its query has issued none;
\* and a call rejected for an unopened store or for a failed query has
\* issued none.
C28_FetchAfterQueryOnce ==
  /\ [](\A s \in Slots :
          LET c == calls[s] IN
          c.op \in ReportOps =>
            /\ c.fetches \in {0, 1}
            /\ c.pc = "request" => c.fetches = 0
            /\ (c.pc = "rejected"
                /\ c.error \in {"Database not opened", "Failed to get report",
                                "Failed to get costs by category",
                                "Failed to get yearly report"})
                 => c.fetches = 0)
  /\ [][\A s \in Slots :
          (calls'[s].op \in ReportOps /\ calls'[s].fetches # calls[s].fetches)
            => /\ calls[s].op = calls'[s].op
               /\ calls[s].pc = "request" /\ calls'[s].pc = "fetching"
               /\ calls[s].fetches = 0 /\ calls'[s].fetches = 1
               /\ disk[calls[s].db].pending = 0]_vars

\* a report whose query failed on an opened store that holds a record was
\* rejected without a fetch
C28_Witness ==
  \E s \in Slots :
    /\ calls[s].op = "getCostsByCategory" /\ calls[s].pc = "rejected"
    /\ calls[s].error = "Failed to get costs by category"
    /\ calls[s].fetches = 0
    /\ dbInstance # NullRef
    /\ Len(Committed(disk[calls[s].db])) = 1

\* C29: all handles share one connection.  A successful open makes its
\* database the module's connection, whatever was opened before and in
\* whatever order the opens were called; no other step changes the
\* connection while the page stays open; and a call of addCost or of a
\* report operation that reaches the store, through the object returned by
\* any open or through the module's function, works on the module's
\* connection: the database whose open succeeded last.
C29_HandlesShareConnection ==
  [][/\ \A s \in Slots :
          (calls[s].op = "openCostsDB" /\ calls'[s].pc = "resolved")
            => dbInstance' = calls[s].name
     /\ (\A s \in Slots : ~(calls[s].op = "openCostsDB"
                            /\ calls'[s].pc = "resolved"))
          => (dbInstance' = dbInstance \/ conns' = {})
     /\ \A s \in Slots :
          (Called(s) /\ calls'[s].op \in DataOps)
            => /\ dbInstance = NullRef => calls'[s].error = "Database not opened"
               /\ calls'[s].tx => calls'[s].db = dbInstance]_vars

\* both databases were opened and the open of "costsdb" succeeded last:
\* addCost through the object returned for "testdb" has put its record into
\* "costsdb", and "testdb" holds none
C29_Witness ==
  \E s \in Slots :
    /\ calls[s].op = "addCost" /\ calls[s].pc = "resolved"
    /\ calls[s].via = "testdb" /\ calls[s].db = "costsdb"
    /\ dbInstance = "costsdb"
    /\ Len(disk["costsdb"].records) = 1
    /\ "costs" \in disk["testdb"].stores
    /\ disk["testdb"].records = <<>>

\* C30: the entry form shows its success message only when the submitted
\* cost was stored.  In every step that brings up the message, an addCost
\* call of the form has resolved and the last record of its store holds the
\* four submitted values; and a step of the form that leaves every store
\* and every call as it was does not bring up the message.
C30_SuccessMeansStored ==
  [][(page'.success /\ ~page.success)
       => \E s \in Slots :
            LET c == calls[s]
                recs == disk[c.db].records
            IN /\ c.op = "addCost" /\ c.pc = "resolved"
               /\ recs # <<>>
               /\ FourFields(recs[Len(recs)]) = FourFields(c.cost)]_vars

====
